---- MODULE Spec2Model ----
(***************************************************************************)
(* Model of lib/tenant.js of Decent Multi-Tenancy: the tenant registry     *)
(* (Tenant.list, Tenant.names), the constructor's defaulting, the matcher  *)
(* canHandle, the resolver Tenant.resolve, and the request lifecycle       *)
(* (handleRequest, middleware, the listener's handler).                    *)
(*                                                                         *)
(* Strings are sequences of one-character strings, so that equality,       *)
(* startsWith and concatenation are computed as JavaScript computes them.  *)
(* JavaScript values of a setting are tagged records (t = the type).       *)
(***************************************************************************)
EXTENDS Integers, Sequences, FiniteSets, TLC

VARIABLES env, list, names, call, request, happened, loop

vars == <<env, list, names, call, request, happened, loop>>

(* ------------------------------ bounds --------------------------------- *)

\* the number of Tenant.load calls in one run
MaxLoads == 2

(* --------------------------- JavaScript values ------------------------- *)

Undef == [t |-> "undefined", n |-> 0, s |-> <<>>, a |-> <<>>]

Num(k) == [t |-> "number", n |-> k, s |-> <<>>, a |-> <<>>]

Str(q) == [t |-> "string", n |-> 0, s |-> q, a |-> <<>>]

Bool(b) == [t |-> "boolean", n |-> IF b THEN 1 ELSE 0, s |-> <<>>, a |-> <<>>]

Arr(q) == [t |-> "array", n |-> 0, s |-> <<>>, a |-> q]

\* ToBoolean: undefined, 0, "" and false are falsy, an array is truthy
Truthy(v) ==
  CASE v.t = "undefined" -> FALSE
    [] v.t = "number"    -> v.n # 0
    [] v.t = "string"    -> v.s # <<>>
    [] v.t = "boolean"   -> v.n = 1
    [] v.t = "array"     -> TRUE

\* a || b
Or(v, w) == IF Truthy(v) THEN v ELSE w

\* options.x : the value of the setting, undefined when the key is absent
Get(options, key) == IF key \in DOMAIN options THEN options[key] ELSE Undef

DigitChar(d) ==
  CASE d = 0 -> "0" [] d = 1 -> "1" [] d = 2 -> "2" [] d = 3 -> "3"
    [] d = 4 -> "4" [] d = 5 -> "5" [] d = 6 -> "6" [] d = 7 -> "7"
    [] d = 8 -> "8" [] d = 9 -> "9"

RECURSIVE NumberToString(_)
NumberToString(k) ==
  IF k < 0 THEN <<"-">> \o NumberToString(0 - k)
  ELSE IF k < 10 THEN <<DigitChar(k)>>
  ELSE NumberToString(k \div 10) \o <<DigitChar(k % 10)>>

\* the string a port value becomes in  thisHost + ':' + this.port
PortString(v) ==
  CASE v.t = "number" -> NumberToString(v.n)
    [] v.t = "string" -> v.s
    [] OTHER          -> <<"u", "n", "d", "e", "f", "i", "n", "e", "d">>

\* String.prototype.startsWith
StartsWith(s, p) == Len(p) <= Len(s) /\ SubSeq(s, 1, Len(p)) = p

localhost == <<"l", "o", "c", "a", "l", "h", "o", "s", "t">>

\* the name a tenant gets when its settings have none
defaultName == <<"d", "e", "f", "a", "u", "l", "t">>

\* the value resolve returns when no tenant is fit
Null == <<"n", "u", "l", "l", "!">>

(* ------------------------------ constructor ---------------------------- *)

\* host: an array is taken as it is, a truthy scalar is wrapped,
\* otherwise process.env.IP or 'localhost'
HostOf(options, e) ==
  LET h == Get(options, "host") IN
  IF h.t = "array" THEN h.a
  ELSE IF Truthy(h) THEN <<h.s>>
  ELSE IF Truthy(e.IP) THEN <<e.IP.s>>
  ELSE <<localhost>>

DebugHostOf(options) ==
  LET h == Get(options, "debugHost") IN
  IF h.t = "array" THEN h.a
  ELSE IF Truthy(h) THEN <<h.s>>
  ELSE <<localhost>>

\* new Tenant(options) under the process environment e.  The constructor
\* assigns no path: this.path reads as undefined on the tenants it builds,
\* the configured path stays in this.settings only.  debug is not assigned
\* either and is unset until canHandle sets it.  displayName is a
\* JavaScript value: it is undefined when neither displayName nor name is
\* configured.  subscribers are the listeners of the event emitter the
\* tenant is: super() starts it with none.
Tenant(options, e) ==
  [ settings  |-> options,
    name      |-> Or(Get(options, "name"), Str(defaultName)).s,
    displayName |-> Or(Get(options, "displayName"), Get(options, "name")),
    host      |-> HostOf(options, e),
    debugHost |-> DebugHostOf(options),
    port      |-> Or(Or(Get(options, "port"), e.PORT), Num(80)),
    https     |-> Truthy(Get(options, "https")),
    active    |-> ~(Get(options, "active") = Bool(FALSE)),
    path      |-> Undef,
    debug     |-> Undef,
    subscribers |-> {} ]

(* -------------------------------- canHandle ---------------------------- *)

\* canHandle's condition with the port test of its first branch dropped: a
\* bare host name is accepted on any port
Matches_AnyPort(t, thisHost, req) ==
  /\ \/ thisHost = req.host
     \/ (t.port = Str(<<"*">>) /\ StartsWith(req.host, thisHost))
     \/ (thisHost \o <<":">> \o PortString(t.port) = req.host)
  /\ \/ ~Truthy(t.path)
     \/ StartsWith(req.url, t.path.s)

\* the condition of the if statement of canHandle for the candidate thisHost
Matches(t, thisHost, req) ==
  /\ \/ /\ \/ (t.https /\ t.port = Num(443))
           \/ t.port = Num(80)
           \/ t.port = Str(<<"*">>)
        /\ thisHost = req.host
     \/ (t.port = Str(<<"*">>) /\ StartsWith(req.host, thisHost))
     \/ (thisHost \o <<":">> \o PortString(t.port) = req.host)
  /\ \/ ~Truthy(t.path)
     \/ StartsWith(req.url, t.path.s)

\* the for loop of canHandle from index i (1-based) on: the index of the
\* first candidate of host.concat(debugHost) that matches, 0 when none does
RECURSIVE FirstMatch(_, _, _)
FirstMatch(t, req, i) ==
  LET hosts == t.host \o t.debugHost IN
  IF i > Len(hosts) THEN 0
  ELSE IF Matches(t, hosts[i], req) THEN i
  ELSE FirstMatch(t, req, i + 1)

\* the value canHandle returns
canHandle(t, req) == FirstMatch(t, req, 1) # 0

\* the debug test with  i > this.host.length  for  i >= this.host.length
ThroughDebugHost_OffByOne(t, req) == FirstMatch(t, req, 1) > Len(t.host) + 1

\* the debug test asking whether any entry of debugHost matches, instead of
\* where the loop stopped
ThroughDebugHost_AnyDebugEntry(t, req) ==
  \E i \in 1..Len(t.debugHost) : Matches(t, t.debugHost[i], req)

\* true when the match canHandle returns on is an entry of debugHost
ThroughDebugHost(t, req) == FirstMatch(t, req, 1) > Len(t.host)

\* canHandle copying the tenant's debug flag to the request on a match
\* through a production host
RequestAfter_LeaksTenantDebug(t, req) ==
  IF ~canHandle(t, req) THEN req
  ELSE IF ThroughDebugHost(t, req) THEN [req EXCEPT !.debug = Bool(TRUE)]
  ELSE [req EXCEPT !.debug = t.debug]

\* the request after tenant.canHandle(request)
RequestAfter(t, req) ==
  IF canHandle(t, req) /\ ThroughDebugHost(t, req)
  THEN [req EXCEPT !.debug = Bool(TRUE)]
  ELSE req

\* the tenant after tenant.canHandle(request): this.debug = request.debug
TenantAfter(t, req) ==
  IF canHandle(t, req) /\ ThroughDebugHost(t, req)
  THEN [t EXCEPT !.debug = RequestAfter(t, req).debug]
  ELSE t

(* --------------------------------- resolve ----------------------------- *)

\* the for loop of Tenant.resolve from index i (1-based) of nms on, with
\* the trackers uniqueActiveTenant (a name of lst, or Null) and
\* foundActiveTenant; matched tells that the returned tenant's canHandle
\* returned true
RECURSIVE ResolveFrom(_, _, _, _, _, _)
ResolveFrom(lst, nms, req, i, uniqueActiveTenant, foundActiveTenant) ==
  IF i > Len(nms) THEN [tenant |-> uniqueActiveTenant, matched |-> FALSE]
  ELSE
    LET tenant == lst[nms[i]] IN
    IF tenant.active
    THEN IF canHandle(tenant, req)
         THEN [tenant |-> nms[i], matched |-> TRUE]
         ELSE ResolveFrom(lst, nms, req, i + 1,
                          IF foundActiveTenant THEN Null ELSE nms[i], TRUE)
    ELSE ResolveFrom(lst, nms, req, i + 1,
                     uniqueActiveTenant, foundActiveTenant)

\* the positions of the order list nms that hold an active tenant
ActivePositions(lst, nms) == { i \in 1..Len(nms) : lst[nms[i]].active }

\* the least element of a non-empty set of numbers
Least(S) == CHOOSE i \in S : \A j \in S : i <= j

\* resolve with uniqueActiveTenant never cleared: the first active tenant
\* is the fallback however many are active
resolve_FirstActiveFallback(lst, nms, req) ==
  LET r == ResolveFrom(lst, nms, req, 1, Null, FALSE) IN
  IF r.tenant = Null /\ ActivePositions(lst, nms) # {}
  THEN [tenant |-> nms[Least(ActivePositions(lst, nms))], matched |-> FALSE]
  ELSE r

\* resolve giving up at the second active tenant, before asking its matcher
resolve_StopsAtAmbiguity(lst, nms, req) ==
  LET r == ResolveFrom(lst, nms, req, 1, Null, FALSE) IN
  IF r.matched /\ r.tenant # nms[Least(ActivePositions(lst, nms))]
  THEN [tenant |-> Null, matched |-> FALSE]
  ELSE r

\* resolve without the test of tenant.active
resolve_IgnoresActive(lst, nms, req) ==
  ResolveFrom([n \in DOMAIN lst |-> [lst[n] EXCEPT !.active = TRUE]],
              nms, req, 1, Null, FALSE)

\* resolve going through Tenant.names from its end
resolve_LastFirst(lst, nms, req) ==
  ResolveFrom(lst, [i \in 1..Len(nms) |-> nms[Len(nms) + 1 - i]], req,
              1, Null, FALSE)

\* Tenant.resolve(request): the name of the tenant returned, or Null
resolve(lst, nms, req) == ResolveFrom(lst, nms, req, 1, Null, FALSE)

\* resolve going on to call canHandle on the tenants after the one it
\* returns
ListAfter_MarksEveryMatch(lst, n, req) ==
  [m \in DOMAIN lst |-> IF lst[m].active THEN TenantAfter(lst[m], req) ELSE lst[m]]

\* the registry after a call of canHandle on the tenant registered as n
ListAfter(lst, n, req) == [lst EXCEPT ![n] = TenantAfter(lst[n], req)]

(* ---------------------------- request lifecycle ------------------------ *)

startRequestEvent == "start-request"

handleRequestEvent == "handle-request"

endRequestEvent == "end-request"

\* handleRequest calling next before it emits end-request
Lifecycle_NextBeforeEnd(req, hasNext) ==
  <<startRequestEvent, handleRequestEvent>>
    \o (IF hasNext THEN <<"next">> ELSE <<>>)
    \o <<endRequestEvent>>
    \o (IF req.tearDown THEN <<"tearDown">> ELSE <<>>)
    \o <<"log">>

\* handleRequest emitting handle-request in the place of end-request
Lifecycle_HandleTwice(req, hasNext) ==
  <<startRequestEvent, handleRequestEvent, handleRequestEvent>>
    \o (IF req.tearDown THEN <<"tearDown">> ELSE <<>>)
    \o <<"log">>
    \o (IF hasNext THEN <<"next">> ELSE <<>>)

\* handleRequest writing its log entry before it runs the teardown hook
Lifecycle_LogBeforeTearDown(req, hasNext) ==
  <<startRequestEvent, handleRequestEvent, endRequestEvent, "log">>
    \o (IF req.tearDown THEN <<"tearDown">> ELSE <<>>)
    \o (IF hasNext THEN <<"next">> ELSE <<>>)

\* the steps of handleRequest in program order when nothing throws
Lifecycle(req, hasNext) ==
  <<startRequestEvent, handleRequestEvent, endRequestEvent>>
    \o (IF req.tearDown THEN <<"tearDown">> ELSE <<>>)
    \o <<"log">>
    \o (IF hasNext THEN <<"next">> ELSE <<>>)

\* the position of the first occurrence of e in the sequence q, 0 if absent
RECURSIVE IndexOf(_, _, _)
IndexOf(q, e, i) ==
  IF i > Len(q) THEN 0 ELSE IF q[i] = e THEN i ELSE IndexOf(q, e, i + 1)

\* handleRequest catching the exception of a subscriber and reporting it
\* through the completion callback
handleRequest_CallsNextOnError(req, hasNext, throwAt) ==
  LET steps == Lifecycle(req, hasNext)
      k     == IndexOf(steps, throwAt, 1)
  IN IF k = 0 THEN steps
     ELSE SubSeq(steps, 1, k) \o (IF hasNext THEN <<"next">> ELSE <<>>)

\* what handleRequest does: the steps up to and including the notification
\* during which a subscriber throws (throwAt, "none" when none does); the
\* exception is not caught, so nothing follows it
handleRequest(req, hasNext, throwAt) ==
  LET steps == Lifecycle(req, hasNext)
      k     == IndexOf(steps, throwAt, 1)
  IN IF k = 0 THEN steps ELSE SubSeq(steps, 1, k) \o <<"throw">>

(* ------------------------------- the state ----------------------------- *)

\* no request: the value of request outside a request operation
NoRequest == [host |-> <<>>, url |-> <<>>, debug |-> Undef, tearDown |-> FALSE]

\* the registry of a fresh process: Tenant.list = {}
EmptyList == [n \in {} |-> Undef]

\* call records the last operation: its name, the tenant it was called on or
\* returned, its return value, and the request and the registry it started
\* from; reenabled is the tenant the operation before it took from
\* inactive to active through enable(), Null when there is none; args holds
\* the other arguments of the operation (the settings and defaults of load,
\* the state of enable, whether handleRequest was given a callback and the
\* notification during which a subscriber throws).
\* The record of an operation that is no request operation:
Op(name, n) ==
  [op |-> name, tenant |-> n, ret |-> Undef, request0 |-> NoRequest,
   list0 |-> EmptyList, reenabled |-> Null, args |-> EmptyList]

\* the record of a request operation on the registry lst0 with the request r0
ReqOp(name, n, ret, r0, lst0) ==
  [op |-> name, tenant |-> n, ret |-> ret, request0 |-> r0, list0 |-> lst0,
   reenabled |-> Null, args |-> EmptyList]

\* the tenant the last operation re-enabled
Reenabled ==
  IF call.op = "enable" /\ ~call.list0[call.tenant].active /\ list[call.tenant].active
  THEN call.tenant ELSE Null

\* the event loop of the process: stack holds the steps the running
\* callback still has to take before it returns to the loop, id and tenant
\* are the request it runs for and the tenant resolved for it, tasks are the
\* callbacks queued for a later turn of the loop, and open are the requests
\* that have been resolved to a tenant and whose completion callback has not
\* been called.  Idle is the loop with nothing running and nothing queued.
Idle == [stack |-> <<>>, id |-> 0, tenant |-> Null, tasks |-> {}, open |-> {}]

A == <<"A">>

B == <<"B">>

a == <<"a">>

b == <<"b">>

d == <<"d">>

\* the process environment: process.env.IP and process.env.PORT
Envs ==
  { [IP |-> Undef, PORT |-> Undef],
    [IP |-> Str(b), PORT |-> Str(<<"4", "2">>)] }

\* the union of two settings objects with disjoint keys
Merge(r1, r2) ==
  [k \in DOMAIN r1 \cup DOMAIN r2 |-> IF k \in DOMAIN r1 THEN r1[k] ELSE r2[k]]

NoSettings == [k \in {} |-> Undef]

\* the bindings the registry is exercised with
Bindings ==
  { NoSettings,
    [port |-> Num(80), host |-> Str(a), debugHost |-> Str(d)],
    [port |-> Num(42), host |-> Arr(<<a, b>>)] }

\* the settings objects passed to Tenant.load
Settings ==
  { Merge(nm, bd) :
      nm \in { [name |-> Str(A)], [name |-> Str(B)] }, bd \in Bindings }
  \cup { [name |-> Str(A), active |-> Bool(FALSE)], NoSettings }

\* the defaults objects passed to Tenant.load
Defaults == { NoSettings, [name |-> Str(B), host |-> Str(a)] }

\* the requests the registry is exercised with
Requests ==
  { [host |-> h, url |-> <<"/", "s">>, debug |-> Undef, tearDown |-> FALSE] :
      h \in { a, d, <<"x">>, <<"a", ":", "4", "2">>, localhost } }

\* the settings and the requests the request lifecycle is exercised with
LifecycleSettings ==
  { [name |-> Str(A)],
    [name |-> Str(B), port |-> Num(80), host |-> Str(a), debugHost |-> Str(d)],
    [name |-> Str(B), active |-> Bool(FALSE)] }

LifecycleRequests ==
  { [host |-> h, url |-> <<"/", "s">>, debug |-> Undef, tearDown |-> td] :
      h \in { a, d, localhost }, td \in BOOLEAN }

NoEnv == [IP |-> Undef, PORT |-> Undef]

Init ==
  /\ env = NoEnv
  /\ list = EmptyList
  /\ names = <<>>
  /\ call = Op("init", Null)
  /\ request = NoRequest
  /\ happened = <<>>
  /\ loop = Idle

(* ------------------------------ operations ----------------------------- *)

\* load that fills in every setting whose value is falsy
WithDefaults_WhenFalsy(settings, defaults) ==
  [k \in DOMAIN settings \cup DOMAIN defaults |->
     IF k \in DOMAIN settings /\ (Truthy(settings[k]) \/ k \notin DOMAIN defaults)
     THEN settings[k] ELSE defaults[k]]

\* the for loop of Tenant.load: a default is copied for each key the
\* settings lack
WithDefaults(settings, defaults) ==
  [k \in DOMAIN settings \cup DOMAIN defaults |->
     IF k \in DOMAIN settings THEN settings[k] ELSE defaults[k]]

\* a registration that updates the tenant object a name already has, which
\* keeps its listeners and its debug flag
Put_UpdatesExisting(lst, tenant) ==
  [n \in DOMAIN lst \cup {tenant.name} |->
     IF n # tenant.name THEN lst[n]
     ELSE IF n \in DOMAIN lst
          THEN [tenant EXCEPT !.subscribers = lst[n].subscribers,
                              !.debug = lst[n].debug]
          ELSE tenant]

\* a registration that keeps the tenant a name already has
Put_KeepsExisting(lst, tenant) ==
  [n \in DOMAIN lst \cup {tenant.name} |->
     IF n \in DOMAIN lst THEN lst[n] ELSE tenant]

\* Tenant.list[tenant.name] = tenant
Put(lst, tenant) ==
  [n \in DOMAIN lst \cup {tenant.name} |->
     IF n = tenant.name THEN tenant ELSE lst[n]]

\* a push at the front of the order list
push_Front(nms, name) == <<name>> \o nms

\* Tenant.names.push(name)
push(nms, name) == Append(nms, name)

\* Tenant.load(settings, defaults): the tenant it returns is the one it
\* registers, call.tenant is its name
LoadStep(settings, defaults) ==
  /\ LET tenant == Tenant(WithDefaults(settings, defaults), env) IN
       /\ list' = Put(list, tenant)
       /\ names' = push(names, tenant.name)
       /\ call' = [Op("load", tenant.name) EXCEPT
                     !.list0 = list,
                     !.args = [settings |-> settings, defaults |-> defaults]]
  /\ request' = NoRequest
  /\ happened' = <<>>
  /\ UNCHANGED <<env, loop>>

\* the settings object with the value v under key
With(settings, key, v) ==
  [k \in DOMAIN settings \cup {key} |-> IF k = key THEN v ELSE settings[k]]

\* the working directory of the process, and the root path discover takes
\* when it is given none: './sites'
cwd == <<"/", "w">>

sitesDir == <<".", "/", "s", "i", "t", "e", "s">>

settingsJson ==
  <<"s", "e", "t", "t", "i", "n", "g", "s", ".", "j", "s", "o", "n">>

\* path.resolve(rootPath, siteName, 'settings.json'): a relative root path
\* is taken from the working directory
pathResolve(rootPath, siteName) ==
  (IF StartsWith(rootPath, <<"/">>) THEN rootPath
   ELSE IF StartsWith(rootPath, <<".", "/">>)
        THEN cwd \o SubSeq(rootPath, 2, Len(rootPath))
        ELSE cwd \o <<"/">> \o rootPath)
    \o <<"/">> \o siteName \o <<"/">> \o settingsJson

\* the settings discover passes to load for the subdirectory site: what
\* require gave, with settingsPath, rootPath and the name
SiteSettings(site, resolvedSitePath) ==
  With(With(With(site.settings, "settingsPath", Str(resolvedSitePath)),
            "rootPath", Str(resolvedSitePath)),
       "name", Or(Get(site.settings, "name"), Str(site.siteName)))

\* discover that goes on with the next subdirectory after a failure and
\* throws the first error at the end
RECURSIVE discover_ContinuesAfterFailure(_, _, _, _, _, _, _, _)
discover_ContinuesAfterFailure(lst, nms, e, defaults, rootPath, siteNames, i, error) ==
  IF i > Len(siteNames) THEN [list |-> lst, names |-> nms, error |-> error]
  ELSE LET site == siteNames[i]
           resolvedSitePath == pathResolve(rootPath, site.siteName)
       IN IF site.siteName[1] = "."
          THEN discover_ContinuesAfterFailure(lst, nms, e, defaults, rootPath,
                                              siteNames, i + 1, error)
          ELSE IF ~site.loadable
          THEN discover_ContinuesAfterFailure(
                 lst, nms, e, defaults, rootPath, siteNames, i + 1,
                 IF error = Undef THEN Str(resolvedSitePath) ELSE error)
          ELSE LET tenant == Tenant(WithDefaults(SiteSettings(site, resolvedSitePath),
                                                 defaults), e)
               IN discover_ContinuesAfterFailure(
                    Put(lst, tenant), push(nms, tenant.name), e, defaults,
                    rootPath, siteNames, i + 1, error)

\* the loop of Tenant.discover from the i-th entry of the directory on: the
\* registry and the order list it leaves, and the path of the error it
\* throws, undefined when it throws none.  An entry of siteNames is a
\* subdirectory: its name, whether require can load its settings.json, and
\* the settings require gives.
RECURSIVE discover(_, _, _, _, _, _, _, _)
discover(lst, nms, e, defaults, rootPath, siteNames, i, error) ==
  IF i > Len(siteNames) THEN [list |-> lst, names |-> nms, error |-> error]
  ELSE LET site == siteNames[i]
           resolvedSitePath == pathResolve(rootPath, site.siteName)
       IN IF site.siteName[1] = "."
          THEN discover(lst, nms, e, defaults, rootPath, siteNames, i + 1, error)
          ELSE IF ~site.loadable
          THEN [list |-> lst, names |-> nms, error |-> Str(resolvedSitePath)]
          ELSE LET tenant == Tenant(WithDefaults(SiteSettings(site, resolvedSitePath),
                                                 defaults), e)
               IN discover(Put(lst, tenant), push(nms, tenant.name), e, defaults,
                           rootPath, siteNames, i + 1, error)

\* Tenant.discover(defaults, rootPath) on a directory that reads as
\* siteNames: call.ret is the path the error carries when it throws,
\* call.list0 and call.args.names0 are the registry it started from
Discover(defaults, rootPath, siteNames) ==
  /\ LET after == discover(list, names, env, defaults,
                           Or(rootPath, Str(sitesDir)).s, siteNames, 1, Undef)
     IN /\ list' = after.list
        /\ names' = after.names
        /\ call' = [ReqOp("discover", Null, after.error, NoRequest, list) EXCEPT
                      !.args = [defaults |-> defaults, rootPath |-> rootPath,
                                siteNames |-> siteNames, names0 |-> names]]
  /\ request' = NoRequest
  /\ happened' = <<>>
  /\ UNCHANGED <<env, loop>>

\* Tenant.load(settings, defaults), at most MaxLoads times
Load(settings, defaults) ==
  /\ Len(names) < MaxLoads
  /\ LoadStep(settings, defaults)

\* enable that takes an omitted state for false
enable_Truthy(state) == Truthy(state)

\* the value tenant.enable(state) gives this.active
enable(state) == state.t = "undefined" \/ Truthy(state)

\* tenant.enable(state) on the tenant registered as n
Enable(n, state) ==
  /\ n \in DOMAIN list
  /\ list' = [list EXCEPT ![n].active = enable(state)]
  /\ call' = [ReqOp("enable", n, Undef, NoRequest, list) EXCEPT
                !.args = [state |-> state]]
  /\ request' = NoRequest
  /\ happened' = <<>>
  /\ UNCHANGED <<env, names, loop>>

\* tenant.disable() on the tenant registered as n
Disable(n) ==
  /\ n \in DOMAIN list
  /\ list' = [list EXCEPT ![n].active = FALSE]
  /\ call' = Op("disable", n)
  /\ request' = NoRequest
  /\ happened' = <<>>
  /\ UNCHANGED <<env, names, loop>>

\* Tenant.resolve(req)
Resolve(req) ==
  LET r == resolve(list, names, req) IN
    /\ call' = [ReqOp("resolve", r.tenant, Undef, req, list)
                  EXCEPT !.reenabled = Reenabled]
    /\ request' = IF r.matched THEN RequestAfter(list[r.tenant], req) ELSE req
    /\ list' = IF r.matched THEN ListAfter(list, r.tenant, req) ELSE list
    /\ happened' = <<>>
    /\ UNCHANGED <<env, names, loop>>

\* tenant.canHandle(req) on the tenant registered as n
CanHandle(n, req) ==
  /\ n \in DOMAIN list
  /\ call' = ReqOp("canHandle", n, Bool(canHandle(list[n], req)), req, list)
  /\ request' = RequestAfter(list[n], req)
  /\ list' = ListAfter(list, n, req)
  /\ happened' = <<>>
  /\ UNCHANGED <<env, names, loop>>

\* the context object handleRequest builds: {tenant, request, response};
\* extra stands for a property a subscriber adds to it
context(t, req) ==
  [tenant |-> t.name, request |-> req, response |-> "response", extra |-> Undef]

\* what the start-request subscribers do to the context they are given:
\* nothing, context.extra = true, context.request.debug = true, or both
Edits == {"none", "context", "request", "both"}

Edited(ctx, edit) ==
  [ctx EXCEPT
     !.extra = IF edit \in {"context", "both"} THEN Bool(TRUE) ELSE @,
     !.request.debug = IF edit \in {"request", "both"} THEN Bool(TRUE) ELSE @]

\* the number of notifications handleRequest emits
EmittedCount(throwAt) ==
  IF throwAt = "none" THEN 3
  ELSE IndexOf(<<startRequestEvent, handleRequestEvent, endRequestEvent>>,
               throwAt, 1)

\* handleRequest building a new context object for each notification: the
\* request is the same object, the context is not
Delivered_FreshContextPerEmit(t, req, throwAt, edit) ==
  LET c0 == context(t, req)
      c1 == [context(t, Edited(c0, edit).request) EXCEPT !.extra = Undef]
  IN SubSeq(<<c0, c1, c1>>, 1, EmittedCount(throwAt))

\* the context as each notification of handleRequest delivers it: the one
\* object built before the first emit, as the subscribers before left it
Delivered(t, req, throwAt, edit) ==
  LET c0 == context(t, req)
      c1 == Edited(c0, edit)
  IN SubSeq(<<c0, c1, c1>>, 1, EmittedCount(throwAt))

\* tenant.handleRequest(req, response, next) on the tenant registered as n,
\* with start-request subscribers that edit the context
HandleRequest(n, req, hasNext, throwAt, edit) ==
  /\ n \in DOMAIN list
  /\ call' = [ReqOp("handleRequest", n, Undef, req, list) EXCEPT
                !.args = [hasNext |-> hasNext, throwAt |-> throwAt,
                          edit |-> edit,
                          delivered |-> Delivered(list[n], req, throwAt, edit)]]
  /\ request' = Edited(context(list[n], req), edit).request
  /\ happened' = handleRequest(req, hasNext, throwAt)
  /\ UNCHANGED <<env, list, names, loop>>

\* middleware without the return after next()
middleware_NoShortCircuit(t, req, throwAt) ==
  IF ~canHandle(t, req)
  THEN <<"next">> \o handleRequest(RequestAfter(t, req), TRUE, throwAt)
  ELSE handleRequest(RequestAfter(t, req), TRUE, throwAt)

\* middleware passing the request on when the tenant is inactive
middleware_ChecksActive(t, req, throwAt) ==
  IF ~t.active \/ ~canHandle(t, req) THEN <<"next">>
  ELSE handleRequest(RequestAfter(t, req), TRUE, throwAt)

\* what tenant.middleware(req, response, next) does on the tenant t: next
\* alone when canHandle rejects the request, handleRequest otherwise
middleware(t, req, throwAt) ==
  IF ~canHandle(t, req) THEN <<"next">>
  ELSE handleRequest(RequestAfter(t, req), TRUE, throwAt)

\* tenant.middleware(req, response, next) on the tenant registered as n
Middleware(n, req, throwAt) ==
  /\ n \in DOMAIN list
  /\ call' = ReqOp("middleware", n, Bool(canHandle(list[n], req)), req, list)
  /\ request' = RequestAfter(list[n], req)
  /\ list' = ListAfter(list, n, req)
  /\ happened' = middleware(list[n], req, throwAt)
  /\ UNCHANGED <<env, names, loop>>

\* tenant.on(event, subscriber) on the tenant registered as n
On(n, subscriber) ==
  /\ n \in DOMAIN list
  /\ list' = [list EXCEPT ![n].subscribers = @ \cup {subscriber}]
  /\ call' = [Op("on", n) EXCEPT !.args = [subscriber |-> subscriber]]
  /\ request' = NoRequest
  /\ happened' = <<>>
  /\ UNCHANGED <<env, names, loop>>

\* the request handler Tenant.listen installs on its servers: the tenant
\* it resolves emits to its own subscribers, call.args.notified
Handler(req, throwAt) ==
  LET r == resolve(list, names, req) IN
    /\ call' = [ReqOp("handler", r.tenant, Undef, req, list) EXCEPT
                  !.args = [notified |-> IF r.tenant = Null THEN {}
                                         ELSE list[r.tenant].subscribers]]
    /\ request' = IF r.matched THEN RequestAfter(list[r.tenant], req) ELSE req
    /\ list' = IF r.matched THEN ListAfter(list, r.tenant, req) ELSE list
    /\ happened' =
         IF r.tenant = Null THEN <<"console.error">>
         ELSE LET h == handleRequest(IF r.matched
                                     THEN RequestAfter(list[r.tenant], req)
                                     ELSE req, TRUE, throwAt) IN
              IF h[Len(h)] = "next" THEN h \o <<"res.end">> ELSE h
    /\ UNCHANGED <<env, names, loop>>

\* handleRequest handing its completion callback to a later turn of the
\* event loop (setImmediate(next)) in the place of calling it
HandlerPlan_DefersNext(req, throwAt) ==
  LET h == handleRequest(req, TRUE, throwAt) IN
  IF h[Len(h)] = "next"
  THEN [sync |-> SubSeq(h, 1, Len(h) - 1), deferred |-> <<"next", "res.end">>]
  ELSE [sync |-> h, deferred |-> <<>>]

\* what the listener's handler does after resolve returned a tenant: the
\* steps it takes before it returns to the event loop, and the steps it
\* queues for a later turn.  emit calls its subscribers and handleRequest
\* calls next synchronously, so nothing is queued.
HandlerPlan(req, throwAt) ==
  LET h == handleRequest(req, TRUE, throwAt) IN
  [sync |-> IF h[Len(h)] = "next" THEN h \o <<"res.end">> ELSE h,
   deferred |-> <<>>]

\* the record of a step of the callback the event loop runs
StepOp(step, lst0) ==
  [ReqOp("step", loop.tenant, Undef, request, lst0) EXCEPT
     !.args = [id |-> loop.id, step |-> step]]

\* a turn of the event loop: with no callback running, it takes a queued
\* one and runs it
Turn(task) ==
  /\ loop.stack = <<>>
  /\ task \in loop.tasks
  /\ loop' = [loop EXCEPT !.stack = task.steps, !.id = task.id,
                          !.tenant = task.tenant, !.tasks = @ \ {task}]
  /\ call' = [Op("turn", task.tenant) EXCEPT !.args = [id |-> task.id]]
  /\ request' = NoRequest
  /\ happened' = <<>>
  /\ UNCHANGED <<env, list, names>>

\* the first statement of the listener's handler, run for the request req:
\* let tenant = Tenant.resolve(req), and the return when there is none
HandlerResolve(req, throwAt) ==
  /\ loop.stack # <<>>
  /\ Head(loop.stack) = "handler"
  /\ LET r    == resolve(list, names, req)
         req1 == IF r.matched THEN RequestAfter(list[r.tenant], req) ELSE req
         plan == IF r.tenant = Null
                 THEN [sync |-> <<"console.error">>, deferred |-> <<>>]
                 ELSE HandlerPlan(req1, throwAt)
     IN /\ list' = IF r.matched THEN ListAfter(list, r.tenant, req) ELSE list
        /\ request' = req1
        /\ loop' = [loop EXCEPT
                      !.stack = plan.sync,
                      !.tenant = r.tenant,
                      !.tasks = IF plan.deferred = <<>> THEN @
                                ELSE @ \cup {[id |-> loop.id, steps |-> plan.deferred,
                                              tenant |-> r.tenant]},
                      !.open = IF r.tenant = Null THEN @ ELSE @ \cup {loop.id}]
        /\ call' = [ReqOp("step", r.tenant, Undef, req, list) EXCEPT
                      !.args = [id |-> loop.id, step |-> "resolve"]]
  /\ happened' = <<"resolve">>
  /\ UNCHANGED <<env, names>>

\* the next step of the running callback: a notification, the teardown
\* hook, the log entry, the completion callback or what it does
HandlerStep ==
  /\ loop.stack # <<>>
  /\ Head(loop.stack) # "handler"
  /\ LET step == Head(loop.stack) IN
       /\ loop' = [loop EXCEPT
                     !.stack = Tail(@),
                     !.open = IF step \in {"next", "throw"} THEN @ \ {loop.id} ELSE @]
       /\ call' = StepOp(step, list)
       /\ happened' = Append(happened, step)
  /\ UNCHANGED <<env, list, names, request>>

\* the notification during which a subscriber throws
ThrowAts == {"none", startRequestEvent, handleRequestEvent, endRequestEvent}

Next ==
  \/ \E settings \in Settings, defaults \in Defaults : Load(settings, defaults)
  \/ \E n \in DOMAIN list, state \in {Undef, Bool(TRUE), Bool(FALSE)} : Enable(n, state)
  \/ \E n \in DOMAIN list : Disable(n)
  \/ \E req \in Requests : Resolve(req)

Spec == Init /\ [][Next]_vars

\* the request lifecycle on a registry of a few tenants
NextLifecycle ==
  \/ \E settings \in LifecycleSettings : Load(settings, NoSettings)
  \/ \E n \in DOMAIN list : Enable(n, Bool(FALSE))
  \/ \E n \in DOMAIN list, req \in LifecycleRequests, hasNext \in BOOLEAN,
        throwAt \in ThrowAts : HandleRequest(n, req, hasNext, throwAt, "none")
  \/ \E n \in DOMAIN list, req \in LifecycleRequests, throwAt \in ThrowAts :
       Middleware(n, req, throwAt)
  \/ \E req \in LifecycleRequests, throwAt \in ThrowAts : Handler(req, throwAt)

SpecLifecycle == Init /\ [][NextLifecycle]_vars

\* handleRequest with start-request subscribers that edit the context
NextContext ==
  \/ \E settings \in LifecycleSettings : Load(settings, NoSettings)
  \/ \E n \in DOMAIN list, req \in LifecycleRequests, throwAt \in ThrowAts,
        edit \in Edits : HandleRequest(n, req, TRUE, throwAt, edit)

SpecContext == Init /\ [][NextContext]_vars

(* ------------------------- the registry under load -------------------- *)

\* the number of loads the registry is taken through
MaxPushes == 3

\* the settings and defaults the registry is loaded with: a key of the
\* settings may be present with the value undefined or false
LoadSettings ==
  { NoSettings,
    [name |-> Str(A)],
    [name |-> Str(A), host |-> Str(b), active |-> Bool(FALSE)],
    [name |-> Str(B), host |-> Undef] }

LoadDefaults ==
  { NoSettings, [name |-> Str(B), host |-> Str(a), active |-> Bool(TRUE)] }

\* the arguments enable is called with
EnableStates ==
  { Undef, Bool(TRUE), Bool(FALSE), Num(0), Num(1), Str(<<>>), Str(a) }

NextLoad ==
  \/ \E settings \in LoadSettings, defaults \in LoadDefaults :
       Len(names) < MaxPushes /\ LoadStep(settings, defaults)
  \/ \E n \in DOMAIN list, state \in EnableStates : Enable(n, state)
  \/ \E n \in DOMAIN list : Disable(n)

SpecLoad == Init /\ [][NextLoad]_vars

(* -------------------------------- reloading ---------------------------- *)

\* the settings a name is loaded and loaded again with
ReloadSettings ==
  { [name |-> Str(A), host |-> Str(a), debugHost |-> Str(d)],
    [name |-> Str(A), host |-> Str(a), debugHost |-> Str(d), active |-> Bool(FALSE)],
    [name |-> Str(B), host |-> Str(b)] }

ReloadRequests ==
  { [host |-> h, url |-> <<"/", "s">>, debug |-> Undef, tearDown |-> FALSE] :
      h \in { a, d } }

Subscribers == {"s1", "s2"}

NextReload ==
  \/ \E settings \in ReloadSettings :
       Len(names) < MaxPushes /\ LoadStep(settings, NoSettings)
  \/ \E n \in DOMAIN list, state \in {Undef, Bool(FALSE)} : Enable(n, state)
  \/ \E n \in DOMAIN list : Disable(n)
  \/ \E n \in DOMAIN list, subscriber \in Subscribers : On(n, subscriber)
  \/ \E req \in ReloadRequests : Handler(req, "none")

SpecReload == Init /\ [][NextReload]_vars

(* ------------------------------ the event loop ------------------------ *)

\* the number of requests in flight
MaxInFlight == 2

\* the requests have arrived: the event loop has a call of the listener's
\* handler queued for each of them
InitLoop ==
  /\ env = NoEnv
  /\ list = EmptyList
  /\ names = <<>>
  /\ call = Op("init", Null)
  /\ request = NoRequest
  /\ happened = <<>>
  /\ loop = [Idle EXCEPT
               !.tasks = { [id |-> i, steps |-> <<"handler">>, tenant |-> Null] :
                             i \in 1..MaxInFlight }]

\* load, enable and disable are called from callbacks of their own, which
\* the event loop runs when no other callback is running
NextLoop ==
  \/ \E task \in loop.tasks : Turn(task)
  \/ \E req \in ReloadRequests, throwAt \in {"none", handleRequestEvent} :
       HandlerResolve(req, throwAt)
  \/ HandlerStep
  \/ \E settings \in LifecycleSettings :
       loop.stack = <<>> /\ Load(settings, NoSettings)
  \/ \E n \in DOMAIN list : loop.stack = <<>> /\ Enable(n, Bool(FALSE))
  \/ \E n \in DOMAIN list : loop.stack = <<>> /\ Disable(n)

SpecLoop == InitLoop /\ [][NextLoop]_vars

(* ----------------------------- construction --------------------------- *)

\* the options tenants are constructed from: host and debugHost absent, a
\* string or a list of zero, one or two strings; port absent, zero, negative,
\* positive or the wildcard; name and displayName absent or given
ConstructSettings ==
  { Merge(Merge(Merge(Merge(nm, dn), h), dh), p) :
      nm \in { NoSettings, [name |-> Str(A)] },
      dn \in { NoSettings, [displayName |-> Str(d)] },
      h  \in { NoSettings, [host |-> Str(a)], [host |-> Arr(<<>>)],
               [host |-> Arr(<<a>>)], [host |-> Arr(<<a, b>>)] },
      dh \in { NoSettings, [debugHost |-> Str(d)], [debugHost |-> Arr(<<>>)],
               [debugHost |-> Arr(<<d, b>>)] },
      p  \in { NoSettings, [port |-> Num(0)], [port |-> Num(0 - 1)],
               [port |-> Num(42)], [port |-> Str(<<"*">>)] } }

\* a fresh registry in any environment
InitConstruct ==
  /\ env \in Envs
  /\ list = EmptyList
  /\ names = <<>>
  /\ call = Op("init", Null)
  /\ request = NoRequest
  /\ happened = <<>>
  /\ loop = Idle

\* one tenant is constructed and registered
NextConstruct ==
  \E settings \in ConstructSettings :
    names = <<>> /\ LoadStep(settings, NoSettings)

SpecConstruct == InitConstruct /\ [][NextConstruct]_vars

(* ------------------------------- discovery ---------------------------- *)

\* the number of tenants after which no further discover or load is started
MaxDiscovered == 3

\* the subdirectories of the sites directory: one with settings that have no
\* name, one with settings named A, one whose settings.json cannot be
\* loaded, and a hidden one without a settings.json
s1 == [siteName |-> <<"s">>, loadable |-> TRUE, settings |-> [port |-> Num(42)]]

s2 == [siteName |-> <<"t">>, loadable |-> TRUE, settings |-> [name |-> Str(A)]]

bad == [siteName |-> <<"x">>, loadable |-> FALSE, settings |-> NoSettings]

hidden == [siteName |-> <<".", "g">>, loadable |-> FALSE, settings |-> NoSettings]

\* what fs.readdirSync returns
Directories ==
  { <<>>, <<hidden, s1>>, <<s1, bad, s2>>, <<bad, s1>>, <<s2, hidden, s1, bad>> }

\* the defaults discover is called with.  require gives the same settings
\* object at every call; with the one defaults object it is the same as a
\* fresh one after the assignments of discover and load.
DiscoverDefaults == [host |-> Str(a), name |-> Str(B)]

\* the root paths discover is called with
RootPaths == { Undef, Str(<<"/", "r">>) }

NextDiscover ==
  \/ \E rootPath \in RootPaths, siteNames \in Directories :
       Len(names) < MaxDiscovered /\ Discover(DiscoverDefaults, rootPath, siteNames)
  \/ \E settings \in { [name |-> Str(A)], [name |-> Str(<<"s">>), host |-> Str(b)] } :
       Len(names) < MaxDiscovered /\ LoadStep(settings, NoSettings)
  \/ \E n \in DOMAIN list : Enable(n, Bool(FALSE))

SpecDiscover == Init /\ [][NextDiscover]_vars

(* ------------------------ the matcher on one tenant -------------------- *)

\* the settings the matcher is exercised with: every combination of host,
\* debugHost, port, https and path below
MatchSettings ==
  { Merge(Merge(Merge(Merge(Merge([name |-> Str(A)], h), dh), p), hs), pa) :
      h  \in { NoSettings, [host |-> Str(a)], [host |-> Arr(<<a, b>>)] },
      dh \in { NoSettings, [debugHost |-> Str(d)], [debugHost |-> Str(a)],
               [debugHost |-> Arr(<<d, b>>)] },
      p  \in { NoSettings, [port |-> Num(80)], [port |-> Num(42)],
               [port |-> Num(443)], [port |-> Str(<<"*">>)] },
      hs \in { NoSettings, [https |-> Bool(TRUE)] },
      pa \in { NoSettings, [path |-> Str(<<"/", "s">>)] } }

\* the requests the matcher is exercised with: bare hosts, hosts with a port
\* suffix, a host that only has a configured host as a prefix
MatchRequests ==
  { [host |-> h, url |-> u, debug |-> dbg, tearDown |-> FALSE] :
      h \in { a, b, d, localhost, <<"a", "b">>,
              <<"a", ":", "4", "2">>, <<"d", ":", "4", "2">>,
              <<"a", ":", "8", "0">>, <<"a", ":", "4", "4", "3">> },
      u \in { <<"/", "s", "/", "p">>, <<"/", "o">> },
      dbg \in { Undef, Bool(TRUE) } }

\* one tenant loaded from any of the settings, in any environment
InitMatch ==
  /\ env \in Envs
  /\ \E settings \in MatchSettings :
       /\ list = Put(EmptyList, Tenant(settings, env))
       /\ names = <<Tenant(settings, env).name>>
       /\ call = Op("load", Tenant(settings, env).name)
  /\ request = NoRequest
  /\ happened = <<>>
  /\ loop = Idle

NextMatch == \E n \in DOMAIN list, req \in MatchRequests : CanHandle(n, req)

SpecMatch == InitMatch /\ [][NextMatch]_vars

\* the debug flags over a sequence of requests, each of them fresh: one
\* tenant with a debug host takes requests whose debug flag is unset
DebugSettings ==
  { Merge(Merge(Merge([name |-> Str(A)], h), dh), p) :
      h  \in { [host |-> Str(a)], [host |-> Arr(<<a, b>>)] },
      dh \in { [debugHost |-> Str(d)], [debugHost |-> Str(a)],
               [debugHost |-> Arr(<<d, b>>)] },
      p  \in { [port |-> Num(80)], [port |-> Num(42)], [port |-> Str(<<"*">>)] } }

FreshRequests == { req \in MatchRequests : req.debug = Undef }

InitDebug ==
  /\ env = NoEnv
  /\ \E settings \in DebugSettings :
       /\ list = Put(EmptyList, Tenant(settings, env))
       /\ names = <<Tenant(settings, env).name>>
       /\ call = Op("load", Tenant(settings, env).name)
  /\ request = NoRequest
  /\ happened = <<>>
  /\ loop = Idle

NextDebug == \E n \in DOMAIN list, req \in FreshRequests : CanHandle(n, req)

SpecDebug == InitDebug /\ [][NextDebug]_vars

(* ------------------------- properties: the resolver -------------------- *)

\* the names of the active tenants of a registry
ActiveNames(lst) == { n \in DOMAIN lst : lst[n].active }

\* the active tenants of a registry whose matcher accepts the request
Accepting(lst, req) == { n \in ActiveNames(lst) : canHandle(lst[n], req) }

\* the first position of the name n in the order list
FirstPos(n) == IndexOf(names, n, 1)

\* the last operation was Tenant.resolve
Resolved == call.op = "resolve"

\* C1: when exactly one registered tenant is active and its matcher rejects
\* the request, resolve returns that tenant.
C1_SoleActiveFallback ==
  Resolved =>
    \A n \in DOMAIN call.list0 :
      (ActiveNames(call.list0) = {n} /\ ~canHandle(call.list0[n], call.request0))
        => call.tenant = n

\* C2: with two or more active tenants, none of which accepts the request,
\* resolve returns null.
C2_AmbiguitySuppressesFallback ==
  (/\ Resolved
   /\ Cardinality(ActiveNames(call.list0)) >= 2
   /\ Accepting(call.list0, call.request0) = {})
    => call.tenant = Null

C2_Witness ==
  /\ Resolved
  /\ Cardinality(ActiveNames(call.list0)) >= 2
  /\ Accepting(call.list0, call.request0) = {}
  /\ call.tenant = Null

\* C3: when some active tenant's matcher accepts the request, resolve
\* returns an active tenant whose matcher accepted it, never the fallback
\* tenant and never null, wherever the accepting tenant is in the order.
C3_ExactMatchPrecedence ==
  (Resolved /\ Accepting(call.list0, call.request0) # {})
    => call.tenant \in Accepting(call.list0, call.request0)

\* the tenant returned accepted the request and comes after another active
\* tenant, which rejected it
C3_Witness ==
  /\ Resolved
  /\ call.tenant \in Accepting(call.list0, call.request0)
  /\ \E m \in ActiveNames(call.list0) :
       /\ FirstPos(m) < FirstPos(call.tenant)
       /\ ~canHandle(call.list0[m], call.request0)

\* C4: resolve never returns a tenant that is inactive at the time of the
\* call, returns null when every tenant is disabled, and a tenant that
\* enable() has just taken from inactive to active is tried by the next
\* resolve: when its matcher accepts the request, resolve returns it or an
\* active accepting tenant before it in the order.
C4_OnlyActiveTenants ==
  Resolved =>
    /\ call.tenant # Null => call.list0[call.tenant].active
    /\ ActiveNames(call.list0) = {} => call.tenant = Null
    /\ (call.reenabled # Null /\ canHandle(call.list0[call.reenabled], call.request0))
         => /\ call.tenant \in Accepting(call.list0, call.request0)
            /\ FirstPos(call.tenant) <= FirstPos(call.reenabled)

\* resolve returned the tenant that the operation before re-enabled
C4_Witness ==
  /\ Resolved
  /\ call.reenabled # Null
  /\ call.tenant = call.reenabled
  /\ \E n \in DOMAIN list : ~list[n].active

\* C5: when several active tenants accept the request, resolve returns the
\* one at the earliest position of the order list.
C5_FirstLoadedWins ==
  (Resolved /\ Accepting(call.list0, call.request0) # {})
    => /\ call.tenant \in Accepting(call.list0, call.request0)
       /\ \A m \in Accepting(call.list0, call.request0) :
            FirstPos(call.tenant) <= FirstPos(m)

C5_Witness ==
  /\ Resolved
  /\ Cardinality(Accepting(call.list0, call.request0)) >= 2
  /\ \A m \in Accepting(call.list0, call.request0) :
       FirstPos(call.tenant) <= FirstPos(m)

(* ------------------------ properties: the lifecycle -------------------- *)

\* the last operation called handleRequest: directly, from middleware after
\* the matcher accepted, or from the listener's handler after resolve
\* returned a tenant
HandleRequestCalled ==
  \/ call.op = "handleRequest"
  \/ call.op = "middleware" /\ call.ret = Bool(TRUE)
  \/ call.op = "handler" /\ call.tenant # Null

\* every y of happened has an x before it, and no x comes after a y
Precedes(x, y) ==
  /\ \A j \in 1..Len(happened) :
       happened[j] = y => \E i \in 1..(j - 1) : happened[i] = x
  /\ \A i, j \in 1..Len(happened) :
       (happened[i] = x /\ happened[j] = y) => i < j

\* C6: in every handleRequest call, start-request strictly precedes
\* handle-request, which strictly precedes end-request, which strictly
\* precedes the invocation of the completion callback.
C6_LifecycleOrdering ==
  HandleRequestCalled =>
    /\ Precedes(startRequestEvent, handleRequestEvent)
    /\ Precedes(handleRequestEvent, endRequestEvent)
    /\ Precedes(endRequestEvent, "next")

\* the listener's handler went through the three notifications and its
\* completion callback ended the response
C6_Witness ==
  /\ call.op = "handler"
  /\ IndexOf(happened, startRequestEvent, 1) = 1
  /\ IndexOf(happened, endRequestEvent, 1) = 3
  /\ IndexOf(happened, "next", 1) > 3
  /\ happened[Len(happened)] = "res.end"

\* the number of times e occurs in happened
Count(e) == Cardinality({i \in 1..Len(happened) : happened[i] = e})

\* a subscriber threw during the last operation
Threw == Count("throw") > 0

\* the last operation was middleware; call.ret is what its matcher answered
MiddlewareCalled == call.op = "middleware"

\* the three notifications were emitted once each and next was called
\* exactly once, after them
DispatchedThenNext ==
  /\ Count(startRequestEvent) = 1
  /\ Count(handleRequestEvent) = 1
  /\ Count(endRequestEvent) = 1
  /\ Count("next") = 1
  /\ Precedes(startRequestEvent, handleRequestEvent)
  /\ Precedes(handleRequestEvent, endRequestEvent)
  /\ Precedes(endRequestEvent, "next")

HandleRequestDirect == call.op = "handleRequest"

\* the notifications of the last operation, in the order they were emitted
Emitted ==
  SelectSeq(happened,
            LAMBDA e : e \in {startRequestEvent, handleRequestEvent, endRequestEvent})

\* C21: in every handleRequest call in which no subscriber fails,
\* start-request, handle-request and end-request are emitted exactly once
\* each, in that order, and the completion callback is invoked exactly once
\* when one is provided and not at all otherwise.
C21_PerRequestStateMachine ==
  (HandleRequestDirect /\ call.args.throwAt = "none") =>
    /\ Emitted = <<startRequestEvent, handleRequestEvent, endRequestEvent>>
    /\ Count("next") = (IF call.args.hasNext THEN 1 ELSE 0)
    /\ ~Threw

\* a handleRequest call with a completion callback and no failing
\* subscriber ended with the callback
C21_Witness ==
  /\ HandleRequestDirect
  /\ call.args.throwAt = "none"
  /\ call.args.hasNext
  /\ Len(Emitted) = 3
  /\ happened[Len(happened)] = "next"

\* C22: when a subscriber raises during a lifecycle phase, handleRequest
\* propagates the failure to its caller: the exception is the last thing
\* that happens, the phases emitted are those up to the failing one, and
\* neither the teardown hook nor the log entry nor the completion callback
\* follows; the same holds when the listener's handler or middleware
\* called handleRequest.
C22_SubscriberFailureNotCaught ==
  /\ (HandleRequestDirect /\ call.args.throwAt # "none") =>
       /\ Threw
       /\ Emitted[Len(Emitted)] = call.args.throwAt
  /\ (HandleRequestCalled /\ Threw) =>
       /\ Count("throw") = 1
       /\ happened[Len(happened)] = "throw"
       /\ happened = Emitted \o <<"throw">>
       /\ \E k \in 1..3 :
            Emitted = SubSeq(<<startRequestEvent, handleRequestEvent,
                               endRequestEvent>>, 1, k)
       /\ Count("tearDown") = 0
       /\ Count("next") = 0
       /\ Count("res.end") = 0

\* a handle-request subscriber threw in a handleRequest call that had a
\* teardown hook and a completion callback
C22_Witness ==
  /\ HandleRequestDirect
  /\ call.args.throwAt = handleRequestEvent
  /\ call.args.hasNext
  /\ request.tearDown
  /\ happened = <<startRequestEvent, handleRequestEvent, "throw">>

\* the teardown hook ran once if the request has one and not otherwise,
\* after end-request and before the one log entry, and the log entry came
\* before the completion callback, which was called if there is one
TearDownLogComplete ==
  /\ Count("tearDown") = (IF call.request0.tearDown THEN 1 ELSE 0)
  /\ Count("log") = 1
  /\ IndexOf(happened, endRequestEvent, 1) > 0
  /\ IndexOf(happened, endRequestEvent, 1) < IndexOf(happened, "log", 1)
  /\ Precedes(endRequestEvent, "tearDown")
  /\ \A i, j \in 1..Len(happened) :
       (happened[i] = "tearDown" /\ happened[j] = "log") => i < j
  /\ Precedes("log", "next")
  /\ Count("next") = (IF call.args.hasNext THEN 1 ELSE 0)

C24_SharedContext ==
  HandleRequestDirect =>
    LET delivered == call.args.delivered IN
      /\ Len(delivered) = Len(Emitted)
      /\ \A i \in 1..Len(delivered) :
           /\ delivered[i].tenant = call.tenant
           /\ delivered[i].response = "response"
      /\ delivered[1].request = call.request0
      /\ delivered[1].extra = Undef
      /\ \A i \in 2..Len(delivered) :
           /\ delivered[i].extra =
                (IF call.args.edit \in {"context", "both"} THEN Bool(TRUE) ELSE Undef)
           /\ delivered[i].request.debug =
                (IF call.args.edit \in {"request", "both"} THEN Bool(TRUE)
                 ELSE call.request0.debug)
           /\ delivered[i].request.host = call.request0.host
           /\ delivered[i].request.url = call.request0.url
           /\ delivered[i].request = request

\* a start-request subscriber changed the context and the request, and
\* end-request was delivered both changes
C24_Witness ==
  /\ HandleRequestDirect
  /\ call.args.edit = "both"
  /\ Len(call.args.delivered) = 3
  /\ call.args.delivered[3].extra = Bool(TRUE)
  /\ call.request0.debug = Undef
  /\ call.args.delivered[3].request.debug = Bool(TRUE)

(* ------------------------- properties: the matcher --------------------- *)

\* the last operation was canHandle; the tenant and the request it started
\* from are Tenant0 and call.request0
CanHandled == call.op = "canHandle"

Tenant0 == call.list0[call.tenant]

\* the entries of a list of hosts that satisfy the host condition of the
\* matcher for the request
HostOk(t, h, req) ==
  \/ /\ t.port = Num(80) \/ (t.port = Num(443) /\ t.https) \/ t.port = Str(<<"*">>)
     /\ req.host = h
  \/ t.port = Str(<<"*">>) /\ StartsWith(req.host, h)
  \/ req.host = h \o <<":">> \o PortString(t.port)

\* the path the tenant was configured with
ConfiguredPath(t) == Get(t.settings, "path")

\* the request matches the tenant through an entry of the list hs
MatchesThrough(t, hs, req) == \E i \in 1..Len(hs) : Matches(t, hs[i], req)

\* C7: for a tenant and a request whose debug flags are unset, a match
\* through an entry of debugHost and none of host sets request.debug and
\* tenant.debug to true, and a match through an entry of host leaves both
\* unset.
C7_DebugFlagSideEffect ==
  (/\ CanHandled
   /\ call.ret = Bool(TRUE)
   /\ call.request0.debug = Undef
   /\ Tenant0.debug = Undef)
    => /\ (/\ MatchesThrough(Tenant0, Tenant0.debugHost, call.request0)
           /\ ~MatchesThrough(Tenant0, Tenant0.host, call.request0))
            => (request.debug = Bool(TRUE) /\ list[call.tenant].debug = Bool(TRUE))
       /\ MatchesThrough(Tenant0, Tenant0.host, call.request0)
            => (~Truthy(request.debug) /\ ~Truthy(list[call.tenant].debug))

\* a match through the debug host d of a tenant whose flags were unset
C7_Witness ==
  /\ CanHandled
  /\ call.ret = Bool(TRUE)
  /\ call.request0.debug = Undef
  /\ Tenant0.debug = Undef
  /\ ~MatchesThrough(Tenant0, Tenant0.host, call.request0)
  /\ request.debug = Bool(TRUE)
  /\ list[call.tenant].debug = Bool(TRUE)

\* C8: canHandle returns true exactly when some entry h of host followed by
\* debugHost satisfies the host condition and the tenant has no path or the
\* request URL starts with its path.
C8_ReferenceMatcher ==
  CanHandled =>
    ( call.ret = Bool(TRUE)
      <=> /\ \E i \in 1..Len(Tenant0.host \o Tenant0.debugHost) :
               HostOk(Tenant0, (Tenant0.host \o Tenant0.debugHost)[i], call.request0)
          /\ \/ ~Truthy(ConfiguredPath(Tenant0))
             \/ StartsWith(call.request0.url, ConfiguredPath(Tenant0).s) )

\* the tenant is bound to a specific port: not 80, not 443 with https, not
\* the wildcard
SpecificPort(t) ==
  /\ t.port # Num(80)
  /\ ~(t.port = Num(443) /\ t.https)
  /\ t.port # Str(<<"*">>)

\* C9: a tenant bound to a specific port matches a request only when the
\* host header is one of its hosts followed by ':' and that port; a bare
\* host name and a host with another port suffix are rejected.
C9_SpecificPort ==
  (CanHandled /\ SpecificPort(Tenant0))
    => LET hosts == Tenant0.host \o Tenant0.debugHost IN
       /\ call.ret = Bool(TRUE)
            => \E i \in 1..Len(hosts) :
                 call.request0.host = hosts[i] \o <<":">> \o PortString(Tenant0.port)
       /\ (\E i \in 1..Len(hosts) : call.request0.host = hosts[i])
            => call.ret = Bool(FALSE)
       /\ (\E i \in 1..Len(hosts), k \in {42, 80, 443} :
              /\ NumberToString(k) # PortString(Tenant0.port)
              /\ call.request0.host = hosts[i] \o <<":">> \o NumberToString(k))
            => call.ret = Bool(FALSE)

\* a tenant on port 42 accepted host:42
C9_Witness ==
  /\ CanHandled
  /\ Tenant0.port = Num(42)
  /\ call.ret = Bool(TRUE)
  /\ call.request0.host = Tenant0.host[1] \o <<":", "4", "2">>

\* C10: when the request matches both an entry of host and an entry of
\* debugHost, canHandle matches through the production entry and sets
\* neither request.debug nor tenant.debug.
C10_ProductionFirst ==
  (/\ CanHandled
   /\ MatchesThrough(Tenant0, Tenant0.host, call.request0)
   /\ MatchesThrough(Tenant0, Tenant0.debugHost, call.request0))
    => /\ call.ret = Bool(TRUE)
       /\ request.debug = call.request0.debug
       /\ list[call.tenant].debug = Tenant0.debug

\* a request that is accepted by an entry of both lists, on a tenant and a
\* request whose debug flags were unset
C10_Witness ==
  /\ CanHandled
  /\ MatchesThrough(Tenant0, Tenant0.host, call.request0)
  /\ MatchesThrough(Tenant0, Tenant0.debugHost, call.request0)
  /\ call.ret = Bool(TRUE)
  /\ request.debug = Undef
  /\ list[call.tenant].debug = Undef

(* ------------------------ properties: registration -------------------- *)

\* the last operation was Tenant.load(call.args.settings, call.args.defaults)
\* and call.tenant is the name of the tenant it returned
Loaded == call.op = "load" /\ DOMAIN call.args = {"settings", "defaults"}

\* C12: for every config and defaults, the settings of the tenant that
\* load(config, defaults) returns have the value of config for every key
\* config has, the value of defaults for exactly the keys config lacks, and
\* no other key.
C12_DefaultingNonDestructive ==
  Loaded =>
    LET config   == call.args.settings
        defaults == call.args.defaults
        merged   == list[call.tenant].settings
    IN /\ DOMAIN merged = DOMAIN config \cup DOMAIN defaults
       /\ \A k \in DOMAIN config : merged[k] = config[k]
       /\ \A k \in DOMAIN defaults \ DOMAIN config : merged[k] = defaults[k]

\* a load whose config has a key with the value undefined that the defaults
\* give another value, and lacks a key of the defaults
C12_Witness ==
  /\ Loaded
  /\ "host" \in DOMAIN call.args.settings
  /\ call.args.settings.host = Undef
  /\ "host" \in DOMAIN call.args.defaults
  /\ call.args.defaults.host = Str(a)
  /\ list[call.tenant].settings.host = Undef
  /\ "active" \notin DOMAIN call.args.settings
  /\ list[call.tenant].settings.active = Bool(TRUE)

\* the number of times the name n occurs in the order list
Occurrences(n) == Cardinality({i \in 1..Len(names) : names[i] = n})

\* C13: after any sequence of load calls, the order list contains each
\* registered tenant name exactly once, and no other name.
C13_NamesOncePerTenant ==
  /\ \A n \in DOMAIN list : Occurrences(n) = 1
  /\ \A i \in 1..Len(names) : names[i] \in DOMAIN list

\* the position at which the name n first occurs in the order list nms
PosIn(nms, n) == IndexOf(nms, n, 1)

\* a step of Tenant.load
LoadStepTaken == call'.op = "load" /\ names' # names

\* C14: resolve goes through the order list from its first entry, so it
\* first tries the tenant n at PosIn(names, n).  A load of a new name puts it
\* after every tenant loaded before, so that the order of first tries is the
\* order of first loads; a load under an existing name changes neither the
\* position of that tenant nor the position of any other tenant, and no
\* other operation changes the order list.
C14_OrderPreservingRegistration ==
  [][/\ LoadStepTaken =>
          /\ \A n \in DOMAIN list : PosIn(names', n) = PosIn(names, n)
          /\ call'.tenant \notin DOMAIN list =>
               \A n \in DOMAIN list :
                 PosIn(names', n) < PosIn(names', call'.tenant)
     /\ ~LoadStepTaken => names' = names]_vars

\* a tenant was loaded again under its name after another tenant was
\* loaded, and is still tried before that tenant
C14_Witness ==
  /\ Loaded
  /\ Len(names) = 3
  /\ names[3] = call.tenant
  /\ names[1] = call.tenant
  /\ names[2] # call.tenant
  /\ FirstPos(call.tenant) < FirstPos(names[2])

\* C15: every load, under a new name or a registered one, registers under
\* the name of the tenant it returns the tenant built from its own arguments
\* and leaves the tenant of every other name as it was; no other operation
\* replaces a tenant, so the registry maps each name to the tenant built by
\* the most recent load of that name.
C15_LastLoadedWins ==
  [][/\ LoadStepTaken =>
          /\ DOMAIN list' = DOMAIN list \cup {call'.tenant}
          /\ list'[call'.tenant] =
               Tenant(WithDefaults(call'.args.settings, call'.args.defaults), env)
          /\ \A n \in DOMAIN list \ {call'.tenant} : list'[n] = list[n]
     /\ ~LoadStepTaken =>
          /\ DOMAIN list' = DOMAIN list
          /\ \A n \in DOMAIN list : list'[n].settings = list[n].settings]_vars

\* a name loaded twice, the second time with a host and inactive, is
\* registered with that host and inactive
C15_Witness ==
  /\ Loaded
  /\ Occurrences(call.tenant) = 2
  /\ call.args.settings = [name |-> Str(A), host |-> Str(b), active |-> Bool(FALSE)]
  /\ list[call.tenant].host = <<b>>
  /\ ~list[call.tenant].active

\* C16: a tenant is active after load unless its settings have active =
\* false; after enable(state) it is active exactly when state is omitted or
\* truthy; after disable() it is inactive; and no operation changes the
\* active flag of a tenant other than the one it is called on, so that
\* active is the outcome of the last of these calls on the tenant.
C16_ActiveFlag ==
  /\ [](/\ Loaded =>
            (list[call.tenant].active <=>
               Get(list[call.tenant].settings, "active") # Bool(FALSE))
        /\ call.op = "enable" =>
            (list[call.tenant].active <=>
               (call.args.state = Undef \/ Truthy(call.args.state)))
        /\ call.op = "disable" => ~list[call.tenant].active)
  /\ [][\A n \in DOMAIN list :
          n # call'.tenant => list'[n].active = list[n].active]_vars

\* enable() with the state omitted made an inactive tenant active
C16_Witness ==
  /\ call.op = "enable"
  /\ call.args.state = Undef
  /\ ~call.list0[call.tenant].active
  /\ list[call.tenant].active

(* ------------------------ properties: construction -------------------- *)

\* C17: for every tenant constructed from any config (host and debugHost
\* each absent, a single string, or a list of any length), the tenant's
\* host and debugHost are non-empty lists.
C17_HostListsNonEmpty ==
  \A n \in DOMAIN list : Len(list[n].host) > 0 /\ Len(list[n].debugHost) > 0

\* the value is a positive integer or the wildcard '*'
PositiveOrWildcard(v) == (v.t = "number" /\ v.n > 0) \/ v = Str(<<"*">>)

\* C18: for every tenant constructed from any config and any environment
\* port default, the tenant's port is a positive integer or the wildcard
\* '*'; with no port configured and no environment default it is 80.
C18_PortPositiveOrWildcard ==
  \A n \in DOMAIN list :
    /\ PositiveOrWildcard(list[n].port)
    /\ ("port" \notin DOMAIN list[n].settings /\ env.PORT = Undef)
         => list[n].port = Num(80)

\* C19: for every constructed tenant, displayName is the configured
\* displayName when one is given and otherwise the tenant's name, including
\* when the name itself was defaulted.
C19_DisplayNameDefaultsToName ==
  \A n \in DOMAIN list :
    list[n].displayName =
      IF "displayName" \in DOMAIN list[n].settings
      THEN list[n].settings.displayName
      ELSE Str(list[n].name)

(* -------------------------- properties: discovery ---------------------- *)

\* the last operation was Tenant.discover
Discovered == call.op = "discover"

NotHidden(site) == site.siteName[1] # "."

\* the settings of the subdirectory cannot be loaded
Fails(site) == NotHidden(site) /\ ~site.loadable

\* the index of the first subdirectory whose settings cannot be loaded, 0
\* when there is none
FailureAt(siteNames) ==
  IF \E k \in 1..Len(siteNames) : Fails(siteNames[k])
  THEN CHOOSE k \in 1..Len(siteNames) :
         Fails(siteNames[k]) /\ \A j \in 1..(k - 1) : ~Fails(siteNames[j])
  ELSE 0

\* the name of the tenant of a subdirectory: the name of its settings, the
\* name of the subdirectory when they have none
NameOfSite(site) ==
  IF "name" \in DOMAIN site.settings THEN site.settings.name.s ELSE site.siteName

\* C20: when the settings of a non-hidden subdirectory cannot be loaded,
\* discover throws an error whose path is the settings path of that
\* subdirectory; the order list is the one before the call followed by the
\* tenants of the non-hidden subdirectories before the failing one, so no
\* later subdirectory is loaded; every tenant registered before the call and
\* not loaded again by this call is unchanged, and each tenant of an earlier
\* subdirectory is registered with the settings of its subdirectory.
C20_DiscoveryFailure ==
  (Discovered /\ FailureAt(call.args.siteNames) # 0) =>
    LET siteNames == call.args.siteNames
        k         == FailureAt(siteNames)
        root      == IF call.args.rootPath = Undef THEN sitesDir
                     ELSE call.args.rootPath.s
        loaded    == SelectSeq(SubSeq(siteNames, 1, k - 1), NotHidden)
        loadedNames == { NameOfSite(loaded[j]) : j \in 1..Len(loaded) }
    IN /\ call.ret = Str(pathResolve(root, siteNames[k].siteName))
       /\ names = call.args.names0 \o [j \in 1..Len(loaded) |-> NameOfSite(loaded[j])]
       /\ DOMAIN list = DOMAIN call.list0 \cup loadedNames
       /\ \A n \in DOMAIN call.list0 \ loadedNames : list[n] = call.list0[n]
       /\ \A n \in loadedNames :
            \E j \in 1..Len(loaded) :
              /\ NameOfSite(loaded[j]) = n
              /\ list[n].settings.settingsPath =
                   Str(pathResolve(root, loaded[j].siteName))

\* discover of /r with the subdirectories s, x and t, on a registry that had
\* a tenant already, failed at /r/x/settings.json after it loaded s
C20_Witness ==
  /\ Discovered
  /\ call.args.siteNames = <<s1, bad, s2>>
  /\ call.ret = Str(<<"/", "r", "/", "x", "/">> \o settingsJson)
  /\ call.args.names0 # <<>>
  /\ names = call.args.names0 \o << <<"s">> >>
  /\ A \in DOMAIN call.list0
  /\ list[A] = call.list0[A]

(* ------------------------ properties: the debug flags ------------------ *)

\* the last operation was a canHandle that accepted a fresh request
FreshMatch ==
  CanHandled /\ call.ret = Bool(TRUE) /\ call.request0.debug = Undef

\* C25: after any sequence of successful canHandle matches on one tenant,
\* each with its own fresh request, tenant.debug is true exactly when the
\* most recent successful match went through a debugHost entry.
C25_TenantDebugLastMatchWins ==
  FreshMatch =>
    (list[call.tenant].debug = Bool(TRUE)
       <=> ThroughDebugHost(Tenant0, call.request0))

\* C26: a fresh request that canHandle accepts through a production host
\* has request.debug unset afterwards, whatever requests matched the
\* tenant's debug host before and whatever the tenant's debug flag is.
C26_RequestDebugPerRequest ==
  (FreshMatch /\ ~ThroughDebugHost(Tenant0, call.request0)) =>
    request.debug = Undef

\* a fresh request matched through a production host on a tenant that an
\* earlier request had put in debug mode
C26_Witness ==
  /\ FreshMatch
  /\ ~ThroughDebugHost(Tenant0, call.request0)
  /\ Tenant0.debug = Bool(TRUE)
  /\ request.debug = Undef

(* ------------------------- properties: frame of resolve --------------- *)

\* C28: resolve leaves the registry mapping, the order list, the environment
\* and, but for the debug flag, every tenant unchanged; it changes no field
\* of a tenant other than the one it returns, none of a tenant whose matcher
\* rejects the request, and of the request nothing but request.debug.
C28_ResolveReadOnly ==
  [][call'.op = "resolve" =>
       /\ names' = names
       /\ env' = env
       /\ DOMAIN list' = DOMAIN list
       /\ \A n \in DOMAIN list :
            /\ [list'[n] EXCEPT !.debug = list[n].debug] = list[n]
            /\ n # call'.tenant => list'[n] = list[n]
            /\ ~canHandle(list[n], call'.request0) => list'[n] = list[n]
       /\ [request' EXCEPT !.debug = call'.request0.debug] = call'.request0]_vars

\* resolve returned one of two tenants through its debug host and set the
\* debug flag of the request and of that tenant
C28_Witness ==
  /\ Resolved
  /\ Cardinality(DOMAIN list) = 2
  /\ call.tenant # Null
  /\ call.list0[call.tenant].debug = Undef
  /\ list[call.tenant].debug = Bool(TRUE)
  /\ call.request0.debug = Undef
  /\ request.debug = Bool(TRUE)

(* ------------------------ properties: the active flag ------------------ *)

\* the last operation was handleRequest, or a middleware whose matcher
\* accepted the request, on a tenant whose active flag is false
DispatchedInactive ==
  /\ \/ HandleRequestDirect
     \/ MiddlewareCalled /\ call.ret = Bool(TRUE)
  /\ ~call.list0[call.tenant].active

\* the three notifications were emitted and the completion callback, when
\* there is one, was called
EmittedAndCompleted ==
  /\ Emitted = <<startRequestEvent, handleRequestEvent, endRequestEvent>>
  /\ Count("next") =
       (IF MiddlewareCalled \/ call.args.hasNext THEN 1 ELSE 0)

C30_ReloadInstallsFreshTenant ==
  /\ [][(LoadStepTaken /\ call'.tenant \in DOMAIN list) =>
          /\ list'[call'.tenant].active =
               (Get(call'.args.settings, "active") # Bool(FALSE))
          /\ list'[call'.tenant].debug = Undef
          /\ list'[call'.tenant].subscribers = {}]_vars
  /\ []((call.op = "handler" /\ call.tenant # Null) =>
          call.args.notified = call.list0[call.tenant].subscribers)

\* a name whose tenant was disabled, in debug mode and had a subscriber was
\* loaded again, and the tenant now registered is active, not in debug mode
\* and has no subscriber
C30_Witness ==
  /\ Loaded
  /\ call.tenant \in DOMAIN call.list0
  /\ ~call.list0[call.tenant].active
  /\ call.list0[call.tenant].debug = Bool(TRUE)
  /\ call.list0[call.tenant].subscribers # {}
  /\ list[call.tenant].active
  /\ list[call.tenant].debug = Undef
  /\ list[call.tenant].subscribers = {}

(* ------------------------ properties: run to completion ---------------- *)

\* C27: while a request is between its resolve in the listener's handler
\* and its completion callback, it is the only such request and the
\* callback running for it has not returned to the event loop; every step
\* taken meanwhile is a step of that request on the tenant resolved for it,
\* so no notification of another request and no load, enable or disable
\* comes in between.
C27_RunToCompletion ==
  /\ [](loop.open # {} => (loop.open = {loop.id} /\ loop.stack # <<>>))
  /\ [][loop.open # {} =>
          /\ call'.op = "step"
          /\ call'.args.id = loop.id
          /\ call'.tenant = loop.tenant
          /\ list' = list
          /\ names' = names]_vars

\* the second request is at its handle-request notification while the first
\* has completed, and a tenant is registered for it
C27_Witness ==
  /\ call.op = "step"
  /\ call.args.step = handleRequestEvent
  /\ loop.open = {loop.id}
  /\ loop.tasks = {}
  /\ call.tenant # Null
  /\ happened = <<"resolve", startRequestEvent, handleRequestEvent>>

====
